---- MODULE Spec2Model ----
(***************************************************************************)
(* Model of the object generators of pkg/generator (text.go, random.go):   *)
(* the constructors newText / newRandom, textSrc.Object, plainSrc.Object   *)
(* and the compressible data synthesizer genData.                          *)
(*                                                                         *)
(* Bytes are drawn from 0..MaxByte.  The deterministic generator           *)
(* (math/rand) is a counter-like state machine over 0..RngMod-1; the       *)
(* secure source (crypto/rand) is a nondeterministic choice of bytes.      *)
(***************************************************************************)
EXTENDS Integers, Sequences, FiniteSets, TLC

\* ------------------------------------------------------------------ bounds
MaxByte   == 1      \* byte values are 0..MaxByte
MaxReq    == 5      \* largest reqSize handed to genData on its own
MaxRatio  == 3      \* largest compRatio
MaxWindow == 3      \* largest compWindow
MaxTotal  == 2      \* largest totalSize of a Text Source
MaxPlain  == 5      \* largest totalSize of a Random Source
MaxBlock  == 2      \* largest configured block size
MaxSeed   == 1      \* explicit seeds are 0..MaxSeed
RngMod    == 4      \* number of states of the deterministic generator
NumSuffix == 2      \* number of distinct name suffixes
MaxCalls  == 2      \* Object() calls per caller
MaxFails  == 1      \* failing reads of the secure random source
MaxGens   == MaxTotal + MaxFails + 1  \* genData invocations counted per call

Byte == 0..MaxByte

RECURSIVE ByteSeqs(_)
\* all byte sequences of length n: the possible results of cRand.Read
ByteSeqs(n) ==
  IF n <= 0 THEN {<<>>}
  ELSE {Append(s, b) : s \in ByteSeqs(n - 1), b \in Byte}

Min(a, b) == IF a < b THEN a ELSE b

\* ------------------------------------------------------------ genData
\* text.go:153-173, the three length computations
UniqueStrLen(reqSize, compRatio, compWindow) ==
  IF compRatio > 0 /\ reqSize <= compWindow
    THEN (IF reqSize \div compRatio = 0 THEN 1 ELSE reqSize \div compRatio)
  ELSE IF compRatio > 0 THEN compWindow \div compRatio
  ELSE reqSize

\* a genData that forgets the remainder
RemStrLenNone(reqSize, compRatio, compWindow) == 0

RemStrLen(reqSize, compRatio, compWindow) ==
  IF compRatio > 0 /\ reqSize <= compWindow
    THEN (IF reqSize \div compRatio = 0 THEN 0 ELSE reqSize % compRatio)
  ELSE IF compRatio > 0 THEN compWindow % compRatio
  ELSE 0

\* a genData without the fallback for requests below the ratio
RepeatUniqueStrLenNoFloor(reqSize, compRatio, compWindow) ==
  IF compRatio > 0 /\ reqSize <= compWindow
    THEN (reqSize \div compRatio) * compRatio
  ELSE IF compRatio > 0 THEN (compWindow \div compRatio) * compRatio
  ELSE reqSize

RepeatUniqueStrLen(reqSize, compRatio, compWindow) ==
  IF compRatio > 0 /\ reqSize <= compWindow
    THEN (IF reqSize \div compRatio = 0 THEN reqSize
          ELSE (reqSize \div compRatio) * compRatio)
  ELSE IF compRatio > 0 THEN (compWindow \div compRatio) * compRatio
  ELSE reqSize

RECURSIVE RepeatFull(_, _, _)
\* text.go:186-188: append the unique string until the length is reached
RepeatFull(builder, uniqueStr, repeatLen) ==
  IF Len(builder) = repeatLen THEN builder
  ELSE RepeatFull(builder \o uniqueStr, uniqueStr, repeatLen)

RECURSIVE FillRemZero(_, _, _)
\* a genData that pads the remainder with zero bytes
FillRemZero(builder, i, remLen) ==
  IF i >= remLen THEN [st |-> "ok", data |-> builder]
  ELSE FillRemZero(Append(builder, 0), i + 1, remLen)

RECURSIVE FillRem(_, _, _)
\* text.go:191-193: builder = append(builder, builder[i]); an index past the
\* bytes already built is a runtime panic
FillRem(builder, i, remLen) ==
  IF i >= remLen THEN [st |-> "ok", data |-> builder]
  ELSE IF i + 1 > Len(builder) THEN [st |-> "panic", data |-> builder]
  ELSE FillRem(Append(builder, builder[i + 1]), i + 1, remLen)

\* a genData that hands back the bytes of the unique slice when the read failed
GenDataPartial(reqSize, compRatio, compWindow, uniqueStr, readErr) ==
  IF readErr THEN [st |-> "ok", data |-> uniqueStr]
  ELSE FillRem(RepeatFull(<<>>, uniqueStr,
                          RepeatUniqueStrLen(reqSize, compRatio, compWindow)),
               0, RemStrLen(reqSize, compRatio, compWindow))

\* a genData that goes past the window on its own, repeating the bytes of
\* the first window until the request is filled
GenDataSameBlock(reqSize, compRatio, compWindow, uniqueStr, readErr) ==
  LET r == IF readErr THEN [st |-> "ok", data |-> <<>>]
           ELSE FillRem(RepeatFull(<<>>, uniqueStr,
                          RepeatUniqueStrLen(reqSize, compRatio, compWindow)),
                        0, RemStrLen(reqSize, compRatio, compWindow))
  IN IF r.st = "ok" /\ Len(r.data) > 0
       THEN [st |-> "ok",
             data |-> [k \in 1..reqSize |-> r.data[((k - 1) % Len(r.data)) + 1]]]
     ELSE r

\* text.go:148-196.  uniqueStr is what cRand.Read put into the unique slice
\* (of length UniqueStrLen), readErr whether that read failed.
GenData(reqSize, compRatio, compWindow, uniqueStr, readErr) ==
  IF readErr THEN [st |-> "ok", data |-> <<>>]
  ELSE FillRem(RepeatFull(<<>>, uniqueStr,
                          RepeatUniqueStrLen(reqSize, compRatio, compWindow)),
               0, RemStrLen(reqSize, compRatio, compWindow))

\* ------------------------------------------------ deterministic generator
NoSeed == 0 - 1     \* o.text.seed == nil / o.random.seed == nil

\* rand.NewSource(seed)
NewSource(seed) == seed % RngMod

\* one draw of rand.Rand: the state after the draw
RngNext(r) == (r + 1) % RngMod

\* the value the draw made in state r delivers
RngVal(r) == r

RECURSIVE ReadFull(_, _)
\* io.ReadFull(rng, data): n bytes, one draw each
ReadFull(r, n) ==
  IF n <= 0 THEN <<>>
  ELSE <<RngVal(r) % (MaxByte + 1)>> \o ReadFull(RngNext(r), n - 1)

RECURSIVE RngSkip(_, _)
\* the generator state after n draws
RngSkip(r, n) == IF n <= 0 THEN r ELSE RngSkip(RngNext(r), n - 1)

\* Options.getSize(rng): fixed, or randomized up to totalSize
GetSize(o_, r) ==
  IF o_.randSize THEN 1 + (RngVal(r) % o_.totalSize) ELSE o_.totalSize

\* randASCIIBytes(nBuf[:], rng): the suffix the draw in state r yields
RandASCIIBytes(r) == (RngVal(r) \div 2) % NumSuffix

\* ------------------------------------------------------ circular buffer
\* newCircularBuffer(data, size)
NewCircularBuffer(data, size) == [data |-> data, want |-> size, read |-> 0]

\* circularBuffer.Reset(requestedLength): a cursor yielding exactly that many
\* bytes; the data is left alone
Reset(buf, size) == [buf EXCEPT !.want = size, !.read = 0]

RECURSIVE Remaining(_)
\* the bytes the stream still yields: the data cycled until want is reached
Remaining(buf) ==
  IF buf.read >= buf.want \/ Len(buf.data) = 0 THEN <<>>
  ELSE <<buf.data[(buf.read % Len(buf.data)) + 1]>>
         \o Remaining([buf EXCEPT !.read = @ + 1])

\* ------------------------------------------------------------- objects
NoName == [ctr |-> 0 - 1, suf |-> 0 - 1, ext |-> ""]

\* fmt.Sprintf("%d.%s.txt", counter, nBuf)
TextName(counter, nBuf) == [ctr |-> counter, suf |-> nBuf, ext |-> "txt"]

\* string(nBuf[:]) + ".txt"
PlainName(nBuf) == [ctr |-> 0 - 1, suf |-> nBuf, ext |-> "txt"]

\* Object.setPrefix(o)
SetPrefix(o_) == "prefix"

\* Object.setName(s)
SetName(obj, s) == [obj EXCEPT !.Name = s]

NoObj == [Reader |-> FALSE, Name |-> NoName, ContentType |-> "",
          Size |-> 0, Prefix |-> ""]

NoSrc == [st |-> "unbuilt", rng |-> 0, counter |-> 0, obj |-> NoObj,
          buf |-> NewCircularBuffer(<<>>, 0)]

\* text.go:94-97, random.go:104-108: the block size capped to totalSize
EffSize(o_) == IF o_.size > o_.totalSize THEN o_.totalSize ELSE o_.size

\* a constructor that lets a zero size through
SizeInvalidNegative(size) == size < 0

\* text.go:98, random.go:109
SizeInvalid(size) == size <= 0

\* text.go:87-122; r0 is the state of the generator made at text.go:88-92
NewTextSrc(o_, r0) ==
  IF SizeInvalid(EffSize(o_)) THEN [NoSrc EXCEPT !.st = "err"]
  ELSE [st |-> "ok",
        rng |-> RngSkip(r0, EffSize(o_)),
        counter |-> 0,
        obj |-> [Reader |-> FALSE, Name |-> NoName,
                 ContentType |-> "text/plain", Size |-> 0,
                 Prefix |-> SetPrefix(o_)],
        buf |-> NewCircularBuffer(ReadFull(r0, EffSize(o_)), EffSize(o_))]

\* random.go:95-125
NewPlainSrc(o_, r0) ==
  IF SizeInvalid(EffSize(o_)) THEN [NoSrc EXCEPT !.st = "err"]
  ELSE [st |-> "ok",
        rng |-> RngSkip(r0, EffSize(o_)),
        counter |-> 0,
        obj |-> [Reader |-> FALSE, Name |-> NoName,
                 ContentType |-> "text/plain", Size |-> 0,
                 Prefix |-> SetPrefix(o_)],
        buf |-> NewCircularBuffer(ReadFull(r0, EffSize(o_)), o_.totalSize)]

\* text.go:198-203: the wording String() picks and the number it prints
String(o_, t) ==
  IF o_.randSize THEN [text |-> "random size up to", n |-> o_.totalSize]
  ELSE [text |-> "bytes total", n |-> t.buf.want]

RECURSIVE SplitLoop(_, _, _)
\* random.go:180-182: dst[i] = dst[i%splitLength]; a zero splitLength is a
\* division by zero
SplitLoop(dst, i, splitLength) ==
  IF i >= Len(dst) THEN [st |-> "ok", data |-> dst]
  ELSE IF splitLength = 0 THEN [st |-> "panic", data |-> dst]
  ELSE SplitLoop([dst EXCEPT ![i + 1] = dst[(i % splitLength) + 1]],
                 i + 1, splitLength)

\* random.go:177-182: dst = append(dst, build...) on the emptied slice, then
\* the split loop
Scramble(build) == SplitLoop(build, Len(build) \div 4, Len(build) \div 4)

RECURSIVE Zeros(_)
Zeros(n) == IF n <= 0 THEN <<>> ELSE <<0>> \o Zeros(n - 1)

Threads == 1..2
Inst    == 1..2

VARIABLES
  o,      \* Options: src (the constructor chosen), totalSize, randSize,
          \* size, seed, compRatio, compWindow
  src,    \* src[i]: generator instance i (textSrc or plainSrc)
  target, \* target[th]: the instance caller th drives, 0 for none
  pc,     \* pc[th]: position of caller th inside Object()
  loc,    \* loc[th]: the locals of caller th's Object() call
  calls,  \* calls[th]: Object() calls caller th has completed
  limit,  \* the number of Object() calls each caller makes in this run
  serial, \* TRUE when one driver thread makes all the calls, one at a time
  rets,   \* rets[i]: the Objects instance i returned, as they were on return
  fails,  \* failed reads of the secure random source so far
  g       \* one genData invocation on its own: arguments and result

vars == <<o, src, target, pc, loc, calls, limit, serial, rets, fails, g>>

\* ------------------------------------------------------ configurations
Seeds == {NoSeed} \cup (0..MaxSeed)

\* Options of a Text Source; compWindow plays no part when compRatio is 0
TextConfigs ==
  {c \in [kind : {"text"}, totalSize : 0..MaxTotal, randSize : BOOLEAN,
          size : {MaxBlock}, seed : Seeds,
          compRatio : 0..MaxRatio, compWindow : 0..MaxWindow] :
     c.compRatio = 0 => c.compWindow = 0}

PlainConfigs ==
  [kind : {"plain"}, totalSize : 0..MaxPlain, randSize : BOOLEAN,
   size : {MaxBlock}, seed : Seeds,
   compRatio : {0}, compWindow : {0}]

Configs == TextConfigs \cup PlainConfigs

\* the locals of one Object() call: the generator state a draw read, the
\* bytes cRand.Read delivered (build), the bytes assembled (builder / dst),
\* the name suffix and the number of genData invocations
NoLoc == [r |-> 0, build |-> <<>>, builder |-> <<>>, nBuf |-> 0, gens |-> 0]

GIdle == [req |-> 0, ratio |-> 0, window |-> 0, err |-> FALSE,
          st |-> "idle", data |-> <<>>]

InitWith(cfgs, tgt, lim, ser) ==
  /\ o \in cfgs
  /\ src = [i \in Inst |-> NoSrc]
  /\ target = tgt
  /\ pc = [th \in Threads |-> "idle"]
  /\ loc = [th \in Threads |-> NoLoc]
  /\ calls = [th \in Threads |-> 0]
  /\ limit = lim
  /\ serial = ser
  /\ rets = [i \in Inst |-> <<>>]
  /\ fails = 0
  /\ g = GIdle

\* one caller drives one instance; an explicit seed only fixes the state the
\* generator starts from, which the unseeded constructor draws from all states
Init == InitWith({c \in Configs : c.seed = NoSeed}, <<1, 0>>, MaxCalls, TRUE)

Crashed == \E th \in Threads : pc[th] = "panic"

\* a constructor that ignores the explicit seed
InitialRngUnseeded(seed) == 0..(RngMod - 1)

\* the generator state a constructor starts from: text.go:88-92, random.go:99-103
InitialRng(seed) ==
  IF seed # NoSeed THEN {NewSource(seed)} ELSE 0..(RngMod - 1)

\* ---------------------------------------------------------- constructors
\* newText(o), text.go:87-122
NewText(i) ==
  /\ o.kind = "text"
  /\ src[i].st = "unbuilt"
  /\ \E th \in Threads : target[th] = i
  /\ \E r0 \in InitialRng(o.seed) : src' = [src EXCEPT ![i] = NewTextSrc(o, r0)]
  /\ UNCHANGED <<o, limit, serial, target, pc, loc, calls, rets, fails, g>>

\* newRandom(o), random.go:95-125
NewRandom(i) ==
  /\ o.kind = "plain"
  /\ src[i].st = "unbuilt"
  /\ \E th \in Threads : target[th] = i
  /\ \E r0 \in InitialRng(o.seed) : src' = [src EXCEPT ![i] = NewPlainSrc(o, r0)]
  /\ UNCHANGED <<o, limit, serial, target, pc, loc, calls, rets, fails, g>>

\* the caller may start a call on its instance
CanCall(th) ==
  /\ ~Crashed
  /\ target[th] # 0
  /\ pc[th] = "idle"
  /\ calls[th] < limit
  /\ serial => \A th2 \in Threads : pc[th2] = "idle"
  /\ src[target[th]].st = "ok"

\* what the caller receives: the Object as it is on return, and the number
\* of bytes its stream yields
Returned(th, t) ==
  [th |-> th, Name |-> t.obj.Name, Size |-> t.obj.Size,
   ContentType |-> t.obj.ContentType, Prefix |-> t.obj.Prefix,
   n |-> Len(Remaining(t.buf))]

\* ------------------------------------------------------- textSrc.Object
\* text.go:125: atomic.AddUint64(&t.counter, 1); the counter is a uint64 and
\* stays below MaxCalls * 2 here, far from wrapping
TextAddCounter(th) ==
  /\ CanCall(th)
  /\ o.kind = "text"
  /\ src' = [src EXCEPT ![target[th]].counter = @ + 1]
  /\ pc' = [pc EXCEPT ![th] = "t_size"]
  /\ loc' = [loc EXCEPT ![th] = NoLoc]
  /\ UNCHANGED <<o, limit, serial, target, calls, rets, fails, g>>

\* text.go:127, the read half of the draw in t.o.getSize(t.rng)
TextSizeRead(th) ==
  /\ ~Crashed
  /\ pc[th] = "t_size"
  /\ loc' = [loc EXCEPT ![th].r = src[target[th]].rng]
  /\ pc' = [pc EXCEPT ![th] = "t_size2"]
  /\ UNCHANGED <<o, limit, serial, src, target, calls, rets, fails, g>>

\* text.go:127: t.obj.Size = t.o.getSize(t.rng)
TextSize(th) ==
  /\ ~Crashed
  /\ pc[th] = "t_size2"
  /\ src' = [src EXCEPT
       ![target[th]].obj.Size = GetSize(o, loc[th].r),
       ![target[th]].rng = IF o.randSize THEN RngNext(loc[th].r) ELSE @]
  /\ pc' = [pc EXCEPT ![th] = "t_loop"]
  /\ UNCHANGED <<o, limit, serial, target, loc, calls, rets, fails, g>>

\* text.go:131-134: one iteration of the accumulation loop
TextGenData(th) ==
  /\ ~Crashed
  /\ pc[th] = "t_loop"
  /\ Len(loc[th].builder) < src[target[th]].obj.Size
  /\ \E readErr \in (IF fails < MaxFails THEN BOOLEAN ELSE {FALSE}) :
     LET reqSize == src[target[th]].obj.Size - Len(loc[th].builder)
     IN \E u \in ByteSeqs(UniqueStrLen(reqSize, o.compRatio, o.compWindow)) :
          LET r == GenData(reqSize, o.compRatio, o.compWindow, u, readErr)
          IN /\ pc' = [pc EXCEPT ![th] =
                         IF r.st = "panic" THEN "panic" ELSE "t_loop"]
             /\ loc' = [loc EXCEPT
                  ![th].builder = @ \o r.data,
                  ![th].gens = IF @ < MaxGens THEN @ + 1 ELSE @]
             /\ fails' = IF readErr THEN fails + 1 ELSE fails
  /\ UNCHANGED <<o, limit, serial, src, target, calls, rets, g>>

\* text.go:131 (loop exit) and text.go:136: t.buf.data = builder
TextSetData(th) ==
  /\ ~Crashed
  /\ pc[th] = "t_loop"
  /\ ~(Len(loc[th].builder) < src[target[th]].obj.Size)
  /\ src' = [src EXCEPT ![target[th]].buf.data = loc[th].builder]
  /\ pc' = [pc EXCEPT ![th] = "t_ascii"]
  /\ UNCHANGED <<o, limit, serial, target, loc, calls, rets, fails, g>>

\* text.go:139, the read half of the draw in randASCIIBytes(nBuf[:], t.rng)
TextASCIIRead(th) ==
  /\ ~Crashed
  /\ pc[th] = "t_ascii"
  /\ loc' = [loc EXCEPT ![th].r = src[target[th]].rng]
  /\ pc' = [pc EXCEPT ![th] = "t_ascii2"]
  /\ UNCHANGED <<o, limit, serial, src, target, calls, rets, fails, g>>

\* text.go:138-139: randASCIIBytes(nBuf[:], t.rng)
TextASCII(th) ==
  /\ ~Crashed
  /\ pc[th] = "t_ascii2"
  /\ src' = [src EXCEPT ![target[th]].rng = RngNext(loc[th].r)]
  /\ loc' = [loc EXCEPT ![th].nBuf = RandASCIIBytes(loc[th].r)]
  /\ pc' = [pc EXCEPT ![th] = "t_name"]
  /\ UNCHANGED <<o, limit, serial, target, calls, rets, fails, g>>

\* text.go:140: t.obj.setName(Sprintf("%d.%s.txt", LoadUint64(&t.counter), nBuf))
TextSetName(th) ==
  /\ ~Crashed
  /\ pc[th] = "t_name"
  /\ src' = [src EXCEPT ![target[th]].obj =
               SetName(@, TextName(src[target[th]].counter, loc[th].nBuf))]
  /\ pc' = [pc EXCEPT ![th] = "t_reset"]
  /\ UNCHANGED <<o, limit, serial, target, loc, calls, rets, fails, g>>

\* text.go:143-144: t.obj.Reader = t.buf.Reset(t.obj.Size); return &t.obj;
\* the locals of the call end with it
TextReturn(th) ==
  /\ ~Crashed
  /\ pc[th] = "t_reset"
  /\ LET i == target[th]
         t == [src[i] EXCEPT !.buf = Reset(@, src[i].obj.Size),
                             !.obj.Reader = TRUE]
     IN /\ src' = [src EXCEPT ![i] = t]
        /\ rets' = [rets EXCEPT ![i] = Append(@, Returned(th, t))]
  /\ pc' = [pc EXCEPT ![th] = "idle"]
  /\ loc' = [loc EXCEPT ![th] = NoLoc]
  /\ calls' = [calls EXCEPT ![th] = @ + 1]
  /\ UNCHANGED <<o, limit, serial, target, fails, g>>

\* ------------------------------------------------------ plainSrc.Object
\* random.go:163: dst := c.buf.data[:0]
PlainStart(th) ==
  /\ CanCall(th)
  /\ o.kind = "plain"
  /\ loc' = [loc EXCEPT ![th] = NoLoc]
  /\ pc' = [pc EXCEPT ![th] = "p_size"]
  /\ UNCHANGED <<o, limit, serial, src, target, calls, rets, fails, g>>

\* random.go:167, the read half of the draw in c.o.getSize(c.rng)
PlainSizeRead(th) ==
  /\ ~Crashed
  /\ pc[th] = "p_size"
  /\ loc' = [loc EXCEPT ![th].r = src[target[th]].rng]
  /\ pc' = [pc EXCEPT ![th] = "p_size2"]
  /\ UNCHANGED <<o, limit, serial, src, target, calls, rets, fails, g>>

\* random.go:167: c.obj.Size = c.o.getSize(c.rng)
PlainSize(th) ==
  /\ ~Crashed
  /\ pc[th] = "p_size2"
  /\ src' = [src EXCEPT
       ![target[th]].obj.Size = GetSize(o, loc[th].r),
       ![target[th]].rng = IF o.randSize THEN RngNext(loc[th].r) ELSE @]
  /\ pc' = [pc EXCEPT ![th] = "p_build"]
  /\ UNCHANGED <<o, limit, serial, target, loc, calls, rets, fails, g>>

\* random.go:169-182: build, cRand.Read(build), append and the split loop
PlainBuild(th) ==
  /\ ~Crashed
  /\ pc[th] = "p_build"
  /\ \E readErr \in (IF fails < MaxFails THEN BOOLEAN ELSE {FALSE}) :
     \E build \in (IF readErr THEN {Zeros(src[target[th]].obj.Size)}
                   ELSE ByteSeqs(src[target[th]].obj.Size)) :
       LET r == Scramble(build)
       IN /\ pc' = [pc EXCEPT ![th] =
                      IF r.st = "panic" THEN "panic" ELSE "p_data"]
          /\ loc' = [loc EXCEPT ![th].build = build, ![th].builder = r.data]
          /\ fails' = IF readErr THEN fails + 1 ELSE fails
  /\ UNCHANGED <<o, limit, serial, src, target, calls, rets, g>>

\* random.go:200-201: c.buf.data = dst; c.obj.Reader = c.buf.Reset(0)
PlainSetData(th) ==
  /\ ~Crashed
  /\ pc[th] = "p_data"
  /\ src' = [src EXCEPT
       ![target[th]].buf = Reset([@ EXCEPT !.data = loc[th].builder], 0),
       ![target[th]].obj.Reader = TRUE]
  /\ pc' = [pc EXCEPT ![th] = "p_ascii"]
  /\ UNCHANGED <<o, limit, serial, target, loc, calls, rets, fails, g>>

\* random.go:203, the read half of the draw in randASCIIBytes(nBuf[:], c.rng)
PlainASCIIRead(th) ==
  /\ ~Crashed
  /\ pc[th] = "p_ascii"
  /\ loc' = [loc EXCEPT ![th].r = src[target[th]].rng]
  /\ pc' = [pc EXCEPT ![th] = "p_ascii2"]
  /\ UNCHANGED <<o, limit, serial, src, target, calls, rets, fails, g>>

\* random.go:202-203: randASCIIBytes(nBuf[:], c.rng)
PlainASCII(th) ==
  /\ ~Crashed
  /\ pc[th] = "p_ascii2"
  /\ src' = [src EXCEPT ![target[th]].rng = RngNext(loc[th].r)]
  /\ loc' = [loc EXCEPT ![th].nBuf = RandASCIIBytes(loc[th].r)]
  /\ pc' = [pc EXCEPT ![th] = "p_name"]
  /\ UNCHANGED <<o, limit, serial, target, calls, rets, fails, g>>

\* random.go:204-205: c.obj.setName(string(nBuf[:]) + ".txt"); return &c.obj;
\* the locals of the call end with it
PlainReturn(th) ==
  /\ ~Crashed
  /\ pc[th] = "p_name"
  /\ LET i == target[th]
         t == [src[i] EXCEPT !.obj = SetName(@, PlainName(loc[th].nBuf))]
     IN /\ src' = [src EXCEPT ![i] = t]
        /\ rets' = [rets EXCEPT ![i] = Append(@, Returned(th, t))]
  /\ pc' = [pc EXCEPT ![th] = "idle"]
  /\ loc' = [loc EXCEPT ![th] = NoLoc]
  /\ calls' = [calls EXCEPT ![th] = @ + 1]
  /\ UNCHANGED <<o, limit, serial, target, fails, g>>

\* ------------------------------------------------------------ the caller
\* the caller reads one byte of the stream it was handed: circularBuffer.Read
ReadByte(th) ==
  /\ ~Crashed
  /\ target[th] # 0
  /\ pc[th] = "idle"
  /\ calls[th] > 0
  /\ Remaining(src[target[th]].buf) # <<>>
  /\ src' = [src EXCEPT ![target[th]].buf.read = @ + 1]
  /\ UNCHANGED <<o, limit, serial, target, pc, loc, calls, rets, fails, g>>

Next ==
  \/ \E i \in Inst : NewText(i)
  \/ \E i \in Inst : NewRandom(i)
  \/ \E th \in Threads : TextAddCounter(th)
  \/ \E th \in Threads : TextSizeRead(th)
  \/ \E th \in Threads : TextSize(th)
  \/ \E th \in Threads : TextGenData(th)
  \/ \E th \in Threads : TextSetData(th)
  \/ \E th \in Threads : TextASCIIRead(th)
  \/ \E th \in Threads : TextASCII(th)
  \/ \E th \in Threads : TextSetName(th)
  \/ \E th \in Threads : TextReturn(th)
  \/ \E th \in Threads : PlainStart(th)
  \/ \E th \in Threads : PlainSizeRead(th)
  \/ \E th \in Threads : PlainSize(th)
  \/ \E th \in Threads : PlainBuild(th)
  \/ \E th \in Threads : PlainSetData(th)
  \/ \E th \in Threads : PlainASCIIRead(th)
  \/ \E th \in Threads : PlainASCII(th)
  \/ \E th \in Threads : PlainReturn(th)
  \/ \E th \in Threads : ReadByte(th)

Spec == Init /\ [][Next]_vars

\* two callers drive the same instance concurrently, one call each
ConcConfigs ==
  {c \in Configs :
     /\ c.seed = NoSeed
     /\ c.kind = "text" => c.totalSize = 2 /\ c.compRatio = 0 /\ c.compWindow = 0
     /\ c.kind = "plain" => c.totalSize = 4}

InitConc == InitWith(ConcConfigs, <<1, 1>>, 1, FALSE)

SpecConc == InitConc /\ [][Next]_vars

\* two instances built from the same explicitly seeded Options, driven by one thread that
\* makes the calls on either instance one at a time
DetConfigs ==
  {c \in Configs :
     /\ c.seed # NoSeed
     /\ c.kind = "text" => c.totalSize = 2 /\ c.compRatio = MaxRatio
                              /\ c.compWindow = MaxWindow
     /\ c.kind = "plain" => c.totalSize = 4}

InitDet == InitWith(DetConfigs, <<1, 2>>, MaxCalls, TRUE)

SpecDet == InitDet /\ [][Next]_vars

\* ------------------------------------------------ constructors on their own
AllTextConfigs ==
  [kind : {"text"}, totalSize : 0..MaxTotal, randSize : BOOLEAN,
   size : 0..MaxBlock, seed : Seeds,
   compRatio : 0..MaxRatio, compWindow : 0..MaxWindow]

AllPlainConfigs ==
  [kind : {"plain"}, totalSize : 0..MaxPlain, randSize : BOOLEAN,
   size : 0..MaxBlock, seed : Seeds,
   compRatio : {0}, compWindow : {0}]

\* every Options value, and no Object() call afterwards
InitNew == InitWith(AllTextConfigs \cup AllPlainConfigs, <<1, 0>>, 0, TRUE)

NextNew ==
  \/ \E i \in Inst : NewText(i)
  \/ \E i \in Inst : NewRandom(i)

SpecNew == InitNew /\ [][NextNew]_vars

\* ------------------------------------------------- genData on its own
\* the window ranges as far as the request, so that requests of several
\* unique blocks fit into it
InitGen ==
  /\ o = CHOOSE c \in Configs : TRUE
  /\ src = [i \in Inst |-> NoSrc]
  /\ target = <<0, 0>>
  /\ pc = [th \in Threads |-> "idle"]
  /\ loc = [th \in Threads |-> NoLoc]
  /\ calls = [th \in Threads |-> 0]
  /\ limit = 0
  /\ serial = FALSE
  /\ rets = [i \in Inst |-> <<>>]
  /\ fails = 0
  /\ \E req \in 0..MaxReq, ratio \in (0 - 1)..MaxRatio, window \in 0..MaxReq :
       g = [GIdle EXCEPT !.req = req, !.ratio = ratio, !.window = window]

\* a call genData(req, ratio, window)
GenDataCall ==
  /\ g.st = "idle"
  /\ \E readErr \in BOOLEAN :
     \E u \in ByteSeqs(UniqueStrLen(g.req, g.ratio, g.window)) :
       LET r == GenData(g.req, g.ratio, g.window, u, readErr)
       IN g' = [g EXCEPT !.err = readErr, !.st = r.st, !.data = r.data]
  /\ UNCHANGED <<o, limit, serial, src, target, pc, loc, calls, rets, fails>>

NextGen == GenDataCall

SpecGen == InitGen /\ [][NextGen]_vars

\* ================================================================ claims

\* C1: every returned Object's stream yields exactly Object.Size bytes, for
\* both sources and after any sequence of Object() calls
C1_SizeFidelity ==
  \A i \in Inst : \A k \in 1..Len(rets[i]) : rets[i][k].n = rets[i][k].Size

\* C2: the names one instance returns are pairwise distinct
C2_NamesDistinct ==
  \A i \in Inst : \A k1, k2 \in 1..Len(rets[i]) :
    k1 # k2 => rets[i][k1].Name # rets[i][k2].Name

\* C3: concurrent Object() calls on one Text Source never emit the same
\* counter value in their names
C3_CounterAtomic ==
  o.kind = "text" =>
    \A i \in Inst : \A k1, k2 \in 1..Len(rets[i]) :
      k1 # k2 => rets[i][k1].Name.ctr # rets[i][k2].Name.ctr

\* C4 as stated: genData returns exactly reqSize bytes for every reqSize,
\* compRatio and compWindow (reqSize > compWindow included)
C4_LengthAlwaysReqSize ==
  (g.st # "idle" /\ ~g.err) => (g.st = "ok" /\ Len(g.data) = g.req)

\* C4 as amended: genData returns exactly reqSize bytes when compRatio <= 0 or
\* reqSize <= compWindow, and exactly compWindow bytes when compRatio > 0 and
\* reqSize > compWindow >= compRatio (the secure random read succeeding)
C4_LengthUpToWindow ==
  (g.st # "idle" /\ ~g.err) =>
    /\ (g.ratio <= 0 \/ g.req <= g.window) =>
         (g.st = "ok" /\ Len(g.data) = g.req)
    /\ (g.ratio > 0 /\ g.req > g.window /\ g.window >= g.ratio) =>
         (g.st = "ok" /\ Len(g.data) = g.window)

C4_Witness ==
  /\ g.st = "ok" /\ ~g.err
  /\ g.ratio > 1 /\ g.req > g.window /\ g.window > g.ratio
  /\ g.window % g.ratio # 0
  /\ Len(g.data) = g.window

\* C5: no step of a later Object() call changes the bytes an unfinished
\* stream of an earlier returned Object still yields
C5_StreamNotMutated ==
  [][\A i \in Inst :
       (src[i].obj.Reader /\ Remaining(src[i].buf) # <<>> /\ pc' # pc)
         => Remaining(src'[i].buf) = Remaining(src[i].buf)]_vars

\* C6: once an instance is constructed, no step replaces or overwrites the
\* data of its circular reader: it stays the construction-time seed
C6_SeedImmutable ==
  [][\A i \in Inst :
       src[i].st = "ok" => src'[i].buf.data = src[i].buf.data]_vars

\* C7: the Object handed out by an earlier call keeps its name, size, content
\* type and prefix whatever the instance does later
C7_FreshObject ==
  \A i \in Inst : \A k \in 1..Len(rets[i]) :
    /\ src[i].obj.Name = rets[i][k].Name
    /\ src[i].obj.Size = rets[i][k].Size
    /\ src[i].obj.ContentType = rets[i][k].ContentType
    /\ src[i].obj.Prefix = rets[i][k].Prefix

\* C8: two instances built from the same Options with an explicit seed return
\* the same sizes and the same names, call by call
C8_Determinism ==
  o.seed # NoSeed =>
    \A k \in 1..Min(Len(rets[1]), Len(rets[2])) :
      /\ rets[1][k].Size = rets[2][k].Size
      /\ rets[1][k].Name = rets[2][k].Name

C8_Witness ==
  /\ o.seed # NoSeed /\ o.randSize
  /\ Len(rets[1]) = MaxCalls /\ Len(rets[2]) = MaxCalls
  /\ src[1].buf.data # src[2].buf.data

\* C9: a constructor fails exactly when min(size, totalSize) <= 0 and then
\* creates no generator state; otherwise the seed buffer has that many bytes
C9_Construction ==
  \A i \in Inst :
    src[i].st # "unbuilt" =>
      /\ (Min(o.size, o.totalSize) <= 0) <=> (src[i].st = "err")
      /\ src[i].st = "err" =>
           /\ src[i].buf.data = <<>> /\ src[i].counter = 0
           /\ ~src[i].obj.Reader /\ rets[i] = <<>>
      /\ (src[i].st = "ok" /\ \A th \in Threads :
                                 target[th] = i => calls[th] = 0 /\ pc[th] = "idle")
           => Len(src[i].buf.data) = Min(o.size, o.totalSize)

C9_Witness ==
  /\ src[1].st = "ok"
  /\ o.size > o.totalSize
  /\ Len(src[1].buf.data) = o.totalSize
  /\ calls[1] = 0 /\ pc[1] = "idle"

\* C10: for 0 < reqSize < compRatio and every compWindow genData returns
\* exactly reqSize bytes, all equal to one byte value
C10_SmallRequest ==
  (g.st # "idle" /\ ~g.err /\ 0 < g.req /\ g.req < g.ratio) =>
    /\ g.st = "ok"
    /\ Len(g.data) = g.req
    /\ \A k \in 1..Len(g.data) : g.data[k] = g.data[1]

\* C11: for compRatio = R > 0 and R <= reqSize <= compWindow genData returns
\* reqSize bytes: R whole copies of one block of reqSize div R bytes, then the
\* first reqSize mod R bytes of the output again; out[i] = out[i mod uniqueLen]
C11_Periodic ==
  (g.st # "idle" /\ ~g.err /\ g.ratio > 0 /\ g.ratio <= g.req
     /\ g.req <= g.window) =>
    LET uniqueLen == g.req \div g.ratio
    IN /\ g.st = "ok"
       /\ Len(g.data) = g.req
       /\ \A i \in 0..(g.req - 1) : g.data[i + 1] = g.data[(i % uniqueLen) + 1]
       /\ \A i \in 0..((g.req % g.ratio) - 1) :
            g.data[(uniqueLen * g.ratio) + i + 1] = g.data[i + 1]

C11_Witness ==
  /\ g.st = "ok" /\ ~g.err
  /\ g.ratio = 2 /\ g.req = 5 /\ g.window >= g.req
  /\ Len(g.data) = 5
  /\ g.data[1] # g.data[2]
  /\ g.data[5] = g.data[1]

\* C12: the data a Random Source Object streams are exactly the bytes the
\* call drew from the secure source, in order, none of them overwritten
C12_FreshBytes ==
  \A th \in Threads :
    pc[th] \in {"p_ascii", "p_ascii2", "p_name"}
      => src[target[th]].buf.data = loc[th].build

\* C13: at every point of a Text Source's lifetime String() reports "random
\* size up to N bytes" with N = totalSize when sizes are randomized and
\* "N bytes total" with N the configured total object size when they are not
C13_Description ==
  \A i \in Inst :
    (o.kind = "text" /\ src[i].st = "ok") =>
      String(o, src[i]) =
        [text |-> IF o.randSize THEN "random size up to" ELSE "bytes total",
         n |-> o.totalSize]

\* C14: every genData invocation the accumulation loop of textSrc.Object
\* makes (the request is positive there) returns, and returns at least one
\* byte when its read succeeds, so the loop ends after finitely many of them
C14_GenDataProgress ==
  [][\A th \in Threads :
       (pc[th] = "t_loop" /\ loc'[th].gens > loc[th].gens /\ fails' = fails)
         => /\ pc'[th] # "panic"
            /\ Len(loc'[th].builder) > Len(loc[th].builder)]_vars

\* caller th is inside a draw from its instance's generator: it has read the
\* generator state and not yet written the state back
InRng(th) ==
  \/ pc[th] \in {"t_ascii2", "p_ascii2"}
  \/ pc[th] \in {"t_size2", "p_size2"} /\ o.randSize

\* C15: no two Object() calls are inside an access to the same generator
\* state at the same time
C15_RngExclusive ==
  \A th1, th2 \in Threads :
    (th1 # th2 /\ target[th1] = target[th2] /\ target[th1] # 0)
      => ~(InRng(th1) /\ InRng(th2))

\* caller th has left the accumulation loop of textSrc.Object
PastLoop(th) == pc[th] \in {"t_ascii", "t_ascii2", "t_name", "t_reset"}

Ceil(a, b) == (a + b - 1) \div b

\* C16 as stated: for compRatio > 0 and a size above compWindow one Text
\* Source object is built from one unique block, drawn once
C16_SingleDraw ==
  \A th \in Threads :
    (PastLoop(th) /\ fails = 0 /\ o.compRatio > 0
       /\ src[target[th]].obj.Size > o.compWindow
       /\ o.compWindow >= o.compRatio)
      => loc[th].gens = 1

\* C16 as amended: for compRatio > 0 and a size above compWindow >= compRatio
\* every window of the object comes from its own genData invocation with its
\* own draw of a unique block: ceil(Size / compWindow) draws when no read fails
C16_DrawPerWindow ==
  \A th \in Threads :
    (PastLoop(th) /\ fails = 0 /\ o.compRatio > 0
       /\ src[target[th]].obj.Size > o.compWindow
       /\ o.compWindow >= o.compRatio)
      => loc[th].gens = Ceil(src[target[th]].obj.Size, o.compWindow)

C16_Witness ==
  /\ pc[1] = "t_ascii" /\ fails = 0
  /\ o.compRatio > 0 /\ o.compWindow >= o.compRatio
  /\ src[1].obj.Size > o.compWindow
  /\ loc[1].gens = 2
  /\ src[1].buf.data[1] # src[1].buf.data[o.compWindow + 1]

\* C17: in a sequential run the name of the k-th Object an instance returns
\* holds the counter value k, then the random suffix and the fixed extension,
\* for the Text Source and for the Random Source newRandom returns
C17_CounterInName ==
  \A i \in Inst : \A k \in 1..Len(rets[i]) :
    /\ rets[i][k].Name.ctr = k
    /\ rets[i][k].Name.suf \in 0..(NumSuffix - 1)
    /\ rets[i][k].Name.ext = "txt"

\* the size accounting of a Text Source: every returned Object streams
\* Object.Size bytes under the k-th counter value, the data past the loop have
\* Object.Size bytes, and the counter is the number of calls started
TextAccounting ==
  /\ \A i \in Inst : \A k \in 1..Len(rets[i]) :
       rets[i][k].n = rets[i][k].Size /\ rets[i][k].Name.ctr = k
  /\ \A th \in Threads :
       target[th] # 0 =>
         /\ pc[th] \in {"t_ascii", "t_ascii2", "t_name", "t_reset"} =>
              Len(src[target[th]].buf.data) = src[target[th]].obj.Size
         /\ src[target[th]].counter =
              calls[th] + (IF pc[th] = "idle" THEN 0 ELSE 1)

\* C18: a genData invocation whose secure-random read fails returns no byte
\* and touches nothing else, and once reads have failed a Text Source still
\* returns only Objects of exactly Object.Size bytes, with the counter
\* advanced once per call, the calls after the failure included
C18_ReadFailure ==
  [][/\ \A th \in Threads :
          (o.kind = "text" /\ pc[th] = "t_loop" /\ fails' > fails)
            => /\ loc'[th].builder = loc[th].builder
               /\ pc'[th] = "t_loop"
               /\ src' = src /\ rets' = rets
     /\ (o.kind = "text" /\ fails' > 0) => TextAccounting']_vars

C18_Witness ==
  /\ o.kind = "text" /\ fails > 0 /\ o.compRatio = 0
  /\ Len(rets[1]) = 1 /\ rets[1][1].n = rets[1][1].Size
  /\ pc[1] = "t_reset" /\ loc[1].gens = 1
  /\ src[1].obj.Name.ctr = 2

\* C19: with compRatio <= 0, or compRatio > 0 and compWindow >= compRatio, an
\* invocation of genData whose read succeeds adds exactly reqSize bytes,
\* respectively min(reqSize, compWindow); the accumulated length never passes
\* Object.Size, equals it when the loop has ended, and the loop has then made
\* ceil(Object.Size / compWindow) invocations when compRatio > 0
C19_NoOvershoot ==
  [][\A th \in Threads :
       /\ (pc[th] = "t_loop" /\ loc'[th].gens > loc[th].gens /\ fails' = fails
            /\ (o.compRatio <= 0 \/ o.compWindow >= o.compRatio))
           => LET reqSize == src[target[th]].obj.Size - Len(loc[th].builder)
              IN /\ pc'[th] = "t_loop"
                 /\ Len(loc'[th].builder) - Len(loc[th].builder) =
                      IF o.compRatio > 0 THEN Min(reqSize, o.compWindow)
                      ELSE reqSize
       /\ pc'[th] = "t_loop" =>
            Len(loc'[th].builder) <= src'[target[th]].obj.Size
       /\ pc'[th] \in {"t_ascii", "t_ascii2", "t_name", "t_reset"} =>
            /\ Len(loc'[th].builder) = src'[target[th]].obj.Size
            /\ (o.compRatio > 0 /\ o.compWindow >= o.compRatio /\ fails' = 0)
                 => loc'[th].gens =
                      Ceil(src'[target[th]].obj.Size, o.compWindow)]_vars

C19_Witness ==
  /\ o.kind = "text" /\ pc[1] = "t_loop" /\ fails = 0
  /\ o.compRatio > 0 /\ o.compWindow >= o.compRatio
  /\ loc[1].gens = 1
  /\ Len(loc[1].builder) = o.compWindow
  /\ Len(loc[1].builder) < src[1].obj.Size

\* C20: no Object() call ends in a runtime fault: plainSrc.Object for every
\* object size (1, 2 and 3 included), genData for every compRatio > 0 and
\* compWindow > 0 (compWindow < compRatio included)
C20_NoFault ==
  \A th \in Threads : pc[th] # "panic"

====
